---- MODULE Spec2Model ----
(***************************************************************************)
(* A model of augeas' builtin primitives (src/builtin.c): the native       *)
(* functions registered by builtin_init, the tagged values they take and   *)
(* return, the tree values they edit in place and the exceptions they      *)
(* build.  The tree module, the lens engine and the value constructors     *)
(* live in other files of the library; they are modelled from the          *)
(* specification and marked so where they are defined.                     *)
(*                                                                         *)
(* Strings are sequences of one-character strings, so that formatting      *)
(* ("%s%u") and prefixes are computed and not assumed.  The struct info    *)
(* argument of every native only carries a source location into the       *)
(* values built; it is left out.                                           *)
(***************************************************************************)
EXTENDS Integers, Sequences, FiniteSets, TLC

VARIABLES
    count,   \* gensym's static unsigned int count
    nodes,   \* the heap of struct tree nodes, in allocation order
    trees,   \* the heap of V_TREE values: their tree pointer and ref count
    prov,    \* history: the (lens, text) a tree value was parsed from by get
    syms,    \* history: the strings gensym returned, with their prefix
    last,    \* the last native call: name, arguments, outcome
    calls    \* the number of calls made, where a specification bounds it

vars == <<count, nodes, trees, prov, syms, last, calls>>

(***************************************************************************)
(* Bounds of the model.                                                    *)
(***************************************************************************)
MaxNodes == 3     \* struct tree nodes ever allocated
MaxVals == 2      \* V_TREE values ever allocated
MaxRef == 3       \* cap of a tree value's reference count
MaxSyms == 2      \* gensym results recorded
MaxCalls == 1     \* calls in a run of all the natives together

(***************************************************************************)
(* Strings, regular expressions (by their language), C's NULL.             *)
(***************************************************************************)
NullStr == <<"NULL">>

Str == {<<>>, <<"a">>, <<"b">>, <<"a", "b">>}

Regexps == {{<<"a">>}, {<<>>, <<"b">>, <<"a", "b">>}}

NoRegexp == {}

Digit(d) ==
    CASE d = 0 -> "0" [] d = 1 -> "1" [] d = 2 -> "2" [] d = 3 -> "3"
      [] d = 4 -> "4" [] d = 5 -> "5" [] d = 6 -> "6" [] d = 7 -> "7"
      [] d = 8 -> "8" [] d = 9 -> "9"

RECURSIVE Dec(_)
\* printf's %u
Dec(n) == IF n < 10 THEN <<Digit(n)>> ELSE Dec(n \div 10) \o <<Digit(n % 10)>>

IsPrefix(p, s) == Len(p) <= Len(s) /\ SubSeq(s, 1, Len(p)) = p

(***************************************************************************)
(* Values.  Every value is a record of the same shape; tag says which      *)
(* field is meaningful.  A V_TREE value is a reference (tid) into trees,   *)
(* since tree values are mutable and shared.                               *)
(***************************************************************************)
Tags == {"V_STRING", "V_REGEXP", "V_LENS", "V_TREE", "V_FILTER", "V_TRANSFORM", "V_EXN"}

NoLens == [kind |-> "none", regexp |-> NoRegexp, string |-> NullStr, key |-> FALSE, value |-> FALSE]

NoFilter == [glob |-> NullStr, include |-> 0]

NoTransform == [lens |-> NoLens, filter |-> NoFilter]

make_value(tag) ==
    [tag |-> tag, string |-> NullStr, regexp |-> NoRegexp, lens |-> NoLens, tid |-> 0,
     filter |-> NoFilter, transform |-> NoTransform, lines |-> <<>>]

NoValue == make_value("none")

StringV(s) == [make_value("V_STRING") EXCEPT !.string = s]

RegexpV(r) == [make_value("V_REGEXP") EXCEPT !.regexp = r]

LensV(l) == [make_value("V_LENS") EXCEPT !.lens = l]

TreeV(i) == [make_value("V_TREE") EXCEPT !.tid = i]

FilterV(f) == [make_value("V_FILTER") EXCEPT !.filter = f]

TransformV(x) == [make_value("V_TRANSFORM") EXCEPT !.transform = x]

(***************************************************************************)
(* Exceptions: a V_EXN value holding an ordered sequence of lines.  A line *)
(* is its format string and the arguments printed into it.                 *)
(***************************************************************************)
Line(fmt, s, s2, n) == [fmt |-> fmt, s |-> s, s2 |-> s2, n |-> n]

make_exn_value(fmt, s, s2) ==
    [make_value("V_EXN") EXCEPT !.lines = <<Line(fmt, s, s2, 0)>>]

exn_printf_line(v, fmt, s, n) ==
    [v EXCEPT !.lines = Append(v.lines, Line(fmt, s, NullStr, n))]

(***************************************************************************)
(* The outcome of a native call: a value (an exception is a value), no     *)
(* value at all (NULL), or a failed assert, which aborts the process.      *)
(* s is the program's state after the call; fake is the scaffold node the  *)
(* call made (0: none).                                                    *)
(***************************************************************************)
State == [count |-> count, nodes |-> nodes, trees |-> trees]

Ret(v, s, fake) == [kind |-> "value", v |-> v, s |-> s, fake |-> fake]

\* undefined behaviour that ended the process
Crash(s) == [kind |-> "crash", v |-> NoValue, s |-> s, fake |-> 0]

RetNull(s) == [kind |-> "null", v |-> NoValue, s |-> s, fake |-> 0]

Abort(s) == [kind |-> "abort", v |-> NoValue, s |-> s, fake |-> 0]

(***************************************************************************)
(* Primitive lenses.  lns_make_prim belongs to the lens module: the flags  *)
(* it derives (does the lens leave a key, a value behind) follow the table *)
(* of primitive kinds.                                                     *)
(***************************************************************************)
lns_make_prim(kind, regexp, string) ==
    [kind |-> kind, regexp |-> regexp, string |-> string,
     key |-> kind \in {"L_KEY", "L_LABEL"},
     value |-> kind = "L_STORE"]

\* V_REGEXP -> V_STRING -> V_LENS
lns_del(s, rxp, dflt) ==
    IF rxp.tag # "V_REGEXP" \/ dflt.tag # "V_STRING" THEN Abort(s)
    ELSE Ret(LensV(lns_make_prim("L_DEL", rxp.regexp, dflt.string)), s, 0)

\* V_REGEXP -> V_LENS
lns_store(s, rxp) ==
    IF rxp.tag # "V_REGEXP" THEN Abort(s)
    ELSE Ret(LensV(lns_make_prim("L_STORE", rxp.regexp, NullStr)), s, 0)

\* V_REGEXP -> V_LENS
lns_key(s, rxp) ==
    IF rxp.tag # "V_REGEXP" THEN Abort(s)
    ELSE Ret(LensV(lns_make_prim("L_KEY", rxp.regexp, NullStr)), s, 0)

\* V_STRING -> V_LENS
lns_label(s, str) ==
    IF str.tag # "V_STRING" THEN Abort(s)
    ELSE Ret(LensV(lns_make_prim("L_LABEL", NoRegexp, str.string)), s, 0)

\* V_STRING -> V_LENS
lns_seq(s, str) ==
    IF str.tag # "V_STRING" THEN Abort(s)
    ELSE Ret(LensV(lns_make_prim("L_SEQ", NoRegexp, str.string)), s, 0)

\* V_STRING -> V_LENS
lns_counter(s, str) ==
    IF str.tag # "V_STRING" THEN Abort(s)
    ELSE Ret(LensV(lns_make_prim("L_COUNTER", NoRegexp, str.string)), s, 0)

(***************************************************************************)
(* gensym.  asprintf may fail (alloc = FALSE): the native returns NULL.    *)
(* The static counter is read and never written.                           *)
(***************************************************************************)
\* V_STRING -> V_STRING
gensym(s, prefix, alloc) ==
    IF prefix.tag # "V_STRING" THEN Abort(s)
    ELSE IF ~alloc THEN RetNull(s)
    ELSE Ret(StringV(prefix.string \o Dec(s.count)), s, 0)

(***************************************************************************)
(* Filters and transforms.  make_filter and make_transform only store      *)
(* their arguments.                                                        *)
(***************************************************************************)
make_filter(glob, include) == [glob |-> glob, include |-> include]

make_transform(lens, filter) == [lens |-> lens, filter |-> filter]

\* V_STRING -> V_FILTER
xform_incl(s, str) ==
    IF str.tag # "V_STRING" THEN Abort(s)
    ELSE Ret(FilterV(make_filter(str.string, 1)), s, 0)

\* V_STRING -> V_FILTER
xform_excl(s, str) ==
    IF str.tag # "V_STRING" THEN Abort(s)
    ELSE Ret(FilterV(make_filter(str.string, 0)), s, 0)

KeyStr == <<"k", "e", "y">>

ValueStr == <<"v", "a", "l", "u", "e">>

\* xform_transform with the test of the message inverted
xform_transform_named_wrong(s, l, f) ==
    IF l.tag # "V_LENS" \/ f.tag # "V_FILTER" THEN Abort(s)
    ELSE IF l.lens.value \/ l.lens.key
    THEN Ret(make_exn_value("Can not build a transform from a lens that leaves a %s behind",
                            IF l.lens.value THEN ValueStr ELSE KeyStr, NullStr), s, 0)
    ELSE Ret(TransformV(make_transform(l.lens, f.filter)), s, 0)

\* V_LENS -> V_FILTER -> V_TRANSFORM
xform_transform(s, l, f) ==
    IF l.tag # "V_LENS" \/ f.tag # "V_FILTER" THEN Abort(s)
    ELSE IF l.lens.value \/ l.lens.key
    THEN Ret(make_exn_value("Can not build a transform from a lens that leaves a %s behind",
                            IF l.lens.key THEN KeyStr ELSE ValueStr, NullStr), s, 0)
    ELSE Ret(TransformV(make_transform(l.lens, f.filter)), s, 0)

(***************************************************************************)
(* The tree module (modelled from the specification).  A tree is the       *)
(* sibling list of its top-level nodes, in order: the sequence of their    *)
(* node ids, <<>> for the NULL pointer.  A path names a label; it resolves *)
(* to the nodes of the list that carry it.  frees counts how often a node  *)
(* was handed to free; a freed node holds nothing any more.                *)
(***************************************************************************)
make_tree(ns, label, value) ==
    [nodes |-> Append(ns, [label |-> label, value |-> value, frees |-> 0]),
     id |-> Len(ns) + 1]

Freed(node) == [label |-> NullStr, value |-> NullStr, frees |-> node.frees + 1]

PathValid(path) == path # <<>> /\ path # NullStr

Matches(ns, list, path) == {i \in 1..Len(list) : ns[list[i]].label = path}

Min(S) == CHOOSE x \in S : \A y \in S : x <= y

\* the node set, created when the path resolves to none; 0 (NULL) on failure
tree_set(ns, list, path, value) ==
    LET m == Matches(ns, list, path)
    IN  IF ~PathValid(path) \/ Cardinality(m) > 1
        THEN [node |-> 0, nodes |-> ns, list |-> list]
        ELSE IF m # {}
        THEN LET n == list[Min(m)]
             IN  [node |-> n, nodes |-> [ns EXCEPT ![n].value = value], list |-> list]
        ELSE LET mk == make_tree(ns, path, value)
             IN  [node |-> mk.id, nodes |-> mk.nodes, list |-> Append(list, mk.id)]

\* a new sibling before or after the one node the path resolves to; r = -1 otherwise
tree_insert(ns, list, path, label, before) ==
    LET m == Matches(ns, list, path)
    IN  IF ~PathValid(path) \/ Cardinality(m) # 1
        THEN [r |-> -1, nodes |-> ns, list |-> list]
        ELSE LET i == Min(m)
                 mk == make_tree(ns, label, NullStr)
                 k == IF before # 0 THEN i - 1 ELSE i
             IN  [r |-> 0, nodes |-> mk.nodes,
                  list |-> SubSeq(list, 1, k) \o <<mk.id>> \o SubSeq(list, k + 1, Len(list))]

\* the chain of siblings that starts at elt: elt alone once it is unlinked
ChainFrom(list, elt) ==
    LET at == {i \in 1..Len(list) : list[i] = elt}
    IN  IF at = {} THEN <<elt>> ELSE SubSeq(list, Min(at), Len(list))

list_remove(elt, list) == SelectSeq(list, LAMBDA x : x # elt)

free_tree(ns, chain) ==
    [n \in 1..Len(ns) |->
        IF \E i \in 1..Len(chain) : chain[i] = n
        THEN Freed(ns[n]) ELSE ns[n]]

\* the heap after it took back the nodes allocated after the n-th, all of them freed
Reclaim(ns, n) == SubSeq(ns, 1, n)

\* removes and frees the nodes the path resolves to; r = -1 when it resolves to none
tree_rm(ns, list, path) ==
    LET m == Matches(ns, list, path)
    IN  IF ~PathValid(path) \/ m = {}
        THEN [r |-> -1, nodes |-> ns, list |-> list]
        ELSE [r |-> Cardinality(m),
              nodes |-> [n \in 1..Len(ns) |->
                            IF \E i \in m : list[i] = n
                            THEN Freed(ns[n]) ELSE ns[n]],
              list |-> SelectSeq(list, LAMBDA x : \A i \in m : list[i] # x)]

\* ref(v) of a tree value: one more reference to the same value
ref(s, tree) == [s EXCEPT !.trees[tree.tid].ref = @ + 1]

(***************************************************************************)
(* Tree manipulation.  The natives edit the tree value in place.           *)
(***************************************************************************)
\* tree_set_glue that frees the scaffold without unlinking it first
tree_set_glue_no_unlink(s, path, val, tree) ==
    IF path.tag # "V_STRING" \/ val.tag # "V_STRING" \/ tree.tag # "V_TREE" THEN Abort(s)
    ELSE
    LET t == tree.tid
        isnull == s.trees[t].tree = <<>>
        mk == make_tree(s.nodes, NullStr, NullStr)
        fake == IF isnull THEN mk.id ELSE 0
        s1 == IF isnull THEN [s EXCEPT !.nodes = mk.nodes, !.trees[t].tree = <<mk.id>>] ELSE s
        r == tree_set(s1.nodes, s1.trees[t].tree, path.string, val.string)
        s2 == [s1 EXCEPT !.nodes = r.nodes, !.trees[t].tree = r.list]
        s3 == IF fake # 0
              THEN [s2 EXCEPT !.nodes = free_tree(s2.nodes, ChainFrom(s2.trees[t].tree, fake))]
              ELSE s2
    IN  IF r.node = 0
        THEN Ret(make_exn_value("Tree set of %s to '%s' failed", path.string, val.string), s1, fake)
        ELSE Ret(tree, ref(s3, tree), fake)

\* V_STRING -> V_STRING -> V_TREE -> V_TREE
tree_set_glue(s, path, val, tree) ==
    IF path.tag # "V_STRING" \/ val.tag # "V_STRING" \/ tree.tag # "V_TREE" THEN Abort(s)
    ELSE
    LET t == tree.tid
        isnull == s.trees[t].tree = <<>>
        mk == make_tree(s.nodes, NullStr, NullStr)
        fake == IF isnull THEN mk.id ELSE 0
        \* tree->tree = fake
        s1 == IF isnull THEN [s EXCEPT !.nodes = mk.nodes, !.trees[t].tree = <<mk.id>>] ELSE s
        r == tree_set(s1.nodes, s1.trees[t].tree, path.string, val.string)
        s2 == [s1 EXCEPT !.nodes = r.nodes, !.trees[t].tree = r.list]
        \* list_remove(fake, tree->tree); free_tree(fake)
        unlinked == list_remove(fake, s2.trees[t].tree)
        s3 == IF fake # 0
              THEN [s2 EXCEPT !.trees[t].tree = unlinked,
                              !.nodes = free_tree(s2.nodes, ChainFrom(unlinked, fake))]
              ELSE s2
    IN  IF r.node = 0
        THEN Ret(make_exn_value("Tree set of %s to '%s' failed", path.string, val.string), s1, fake)
        ELSE Ret(tree, ref(s3, tree), fake)

tree_insert_glue(s, label, path, tree, before) ==
    IF label.tag # "V_STRING" \/ path.tag # "V_STRING" \/ tree.tag # "V_TREE" THEN Abort(s)
    ELSE
    LET t == tree.tid
        r == tree_insert(s.nodes, s.trees[t].tree, path.string, label.string, before)
        s1 == [s EXCEPT !.nodes = r.nodes, !.trees[t].tree = r.list]
    IN  IF r.r # 0
        THEN Ret(make_exn_value("Tree insert of %s at %s failed", label.string, path.string), s1, 0)
        ELSE Ret(tree, ref(s1, tree), 0)

\* Insert after
\* V_STRING -> V_STRING -> V_TREE -> V_TREE
tree_insa_glue(s, label, path, tree) == tree_insert_glue(s, label, path, tree, 0)

\* tree_insb_glue that inserts after
tree_insb_glue_after(s, label, path, tree) == tree_insert_glue(s, label, path, tree, 0)

\* Insert before
\* V_STRING -> V_STRING -> V_TREE -> V_TREE
tree_insb_glue(s, label, path, tree) == tree_insert_glue(s, label, path, tree, 1)

\* tree_rm_glue that hands back a copy of the tree value
tree_rm_glue_copy(s, path, tree) ==
    IF path.tag # "V_STRING" \/ tree.tag # "V_TREE" THEN Abort(s)
    ELSE
    LET t == tree.tid
        r == tree_rm(s.nodes, s.trees[t].tree, path.string)
        s1 == [s EXCEPT !.nodes = r.nodes, !.trees[t].tree = r.list]
        s2 == [s1 EXCEPT !.trees = Append(@, [tree |-> r.list, ref |-> 1])]
    IN  IF r.r = -1
        THEN Ret(make_exn_value("Tree rm of %s failed", path.string, NullStr), s1, 0)
        ELSE Ret(TreeV(Len(s2.trees)), s2, 0)

\* V_STRING -> V_TREE -> V_TREE
tree_rm_glue(s, path, tree) ==
    IF path.tag # "V_STRING" \/ tree.tag # "V_TREE" THEN Abort(s)
    ELSE
    LET t == tree.tid
        r == tree_rm(s.nodes, s.trees[t].tree, path.string)
        s1 == [s EXCEPT !.nodes = r.nodes, !.trees[t].tree = r.list]
    IN  IF r.r = -1
        THEN Ret(make_exn_value("Tree rm of %s failed", path.string, NullStr), s1, 0)
        ELSE Ret(tree, ref(s1, tree), 0)

(***************************************************************************)
(* The lens engine (modelled from the specification), for the primitive    *)
(* lenses.  get matches the longest prefix of the text the lens accepts    *)
(* and deposits the key or the value the lens leaves in a node; it fails   *)
(* at the offset where it could not continue, with the tree built so far.  *)
(* put writes the text back from the tree and the original text; it fails  *)
(* at a tree path.  A lens error: message, owning lens or none, offset     *)
(* (-1: none), path (NullStr: none).                                       *)
(***************************************************************************)
PrimKinds == {"L_DEL", "L_STORE", "L_KEY", "L_LABEL", "L_SEQ", "L_COUNTER"}

NoError == [set |-> FALSE, message |-> NullStr, lens |-> FALSE, pos |-> -1, path |-> NullStr]

lns_error(message, lens, pos, path) ==
    [set |-> TRUE, message |-> message, lens |-> lens, pos |-> pos, path |-> path]

MsgNoMatch == <<"n", "o", "m", "a", "t", "c", "h">>

MsgNotAll == <<"n", "o", "t", "a", "l", "l">>

MsgPut == <<"p", "u", "t">>

Max(S) == CHOOSE x \in S : \A y \in S : y <= x

\* the lengths of the prefixes of text the lens accepts
Accepts(lens, text) ==
    IF lens.kind \in {"L_DEL", "L_STORE", "L_KEY"}
    THEN {k \in 0..Len(text) : SubSeq(text, 1, k) \in lens.regexp}
    ELSE {0}

\* what the lens leaves in the tree for the text it matched
Deposit(lens, matched) ==
    CASE lens.kind = "L_STORE" -> <<[label |-> NullStr, value |-> matched]>>
      [] lens.kind = "L_KEY" -> <<[label |-> matched, value |-> NullStr]>>
      [] lens.kind = "L_LABEL" -> <<[label |-> lens.string, value |-> NullStr]>>
      [] OTHER -> <<>>

\* the parse: the nodes' contents and the error, if any
get_lens(lens, text, own) ==
    LET acc == Accepts(lens, text)
        n == Max(acc)
    IN  IF acc = {}
        THEN [tree |-> <<>>, err |-> lns_error(MsgNoMatch, own, 0, NullStr)]
        ELSE [tree |-> Deposit(lens, SubSeq(text, 1, n)),
              err |-> IF n < Len(text) THEN lns_error(MsgNotAll, own, n, NullStr) ELSE NoError]

lns_get(ns, lens, text, own) ==
    LET g == get_lens(lens, text, own)
        mk == make_tree(ns, g.tree[1].label, g.tree[1].value)
    IN  IF g.tree = <<>>
        THEN [tree |-> <<>>, nodes |-> ns, err |-> g.err]
        ELSE [tree |-> <<mk.id>>, nodes |-> mk.nodes, err |-> g.err]

PathOf(ns, list) == IF list = <<>> THEN <<"/">> ELSE <<"/">> \o ns[list[1]].label

lns_put(lens, ns, list, text) ==
    LET one == Len(list) = 1
        n == ns[list[1]]
        fail == [buf |-> <<>>, err |-> lns_error(MsgPut, TRUE, -1, PathOf(ns, list))]
        ok(buf) == [buf |-> buf, err |-> NoError]
    IN  CASE lens.kind = "L_DEL" ->
                IF list # <<>> THEN fail
                ELSE ok(IF text \in lens.regexp THEN text ELSE lens.string)
          [] lens.kind = "L_STORE" ->
                IF one /\ n.label = NullStr /\ n.value \in lens.regexp THEN ok(n.value) ELSE fail
          [] lens.kind = "L_KEY" ->
                IF one /\ n.value = NullStr /\ n.label \in lens.regexp THEN ok(n.label) ELSE fail
          [] lens.kind = "L_LABEL" ->
                IF one /\ n.value = NullStr /\ n.label = lens.string THEN ok(<<>>) ELSE fail
          [] OTHER -> IF list = <<>> THEN ok(<<>>) ELSE fail

\* the text around an offset, with a marker at it
format_pos(text, pos) == SubSeq(text, 1, pos) \o <<"|=|">> \o SubSeq(text, pos + 1, Len(text))

InfoStr == <<"i", "n", "f", "o">>

NullFmt == <<"(", "n", "u", "l", "l", ")">>

RECURSIVE print_tree(_, _)
print_tree(ns, list) ==
    IF list = <<>> THEN <<>>
    ELSE <<"/">> \o ns[list[1]].label \o <<"=">> \o ns[list[1]].value \o <<"\n">>
         \o print_tree(ns, Tail(list))

(***************************************************************************)
(* Applying lenses.  render: format_pos produced a snippet (it may return  *)
(* NULL).  null_prints: what printing a NULL char* with %s does, which C   *)
(* leaves undefined: it prints "(null)" or the process dies.               *)
(***************************************************************************)
\* make_exn_lns_error that reports the position before the lens
make_exn_lns_error_pos_first(err, text, render, null_prints) ==
    LET v == make_exn_value("%s", err.message, NullStr)
        here == exn_printf_line(v, "Error encountered here (%d characters into string)",
                                NullStr, err.pos)
        ctx == IF render THEN exn_printf_line(here, "%s", format_pos(text, err.pos), 0) ELSE here
        at == exn_printf_line(v, "Error encountered at path %s", err.path, 0)
        w == IF err.pos >= 0 THEN ctx ELSE at
    IN  IF err.lens THEN exn_printf_line(w, "Lens: %s", InfoStr, 0) ELSE w

make_exn_lns_error(err, text, render, null_prints) ==
    LET v == make_exn_value("%s", err.message, NullStr)
        v1 == IF err.lens THEN exn_printf_line(v, "Lens: %s", InfoStr, 0) ELSE v
        here == exn_printf_line(v1, "Error encountered here (%d characters into string)",
                                NullStr, err.pos)
    IN  IF err.pos >= 0
        THEN IF render THEN exn_printf_line(here, "%s", format_pos(text, err.pos), 0) ELSE here
        ELSE IF err.path # NullStr
        THEN exn_printf_line(v1, "Error encountered at path %s", err.path, 0)
        ELSE IF null_prints
        THEN exn_printf_line(v1, "Error encountered at path %s", NullFmt, 0)
        ELSE NoValue

exn_print_tree(exn, ns, tree) == exn_printf_line(exn, "%s", print_tree(ns, tree), 0)

\* V_LENS -> V_STRING -> V_TREE
lens_get(s, l, str, own, render, null_prints) ==
    IF l.tag # "V_LENS" \/ str.tag # "V_STRING" THEN Abort(s)
    ELSE
    LET text == str.string
        r == lns_get(s.nodes, l.lens, text, own)
        made == [s EXCEPT !.nodes = r.nodes, !.trees = Append(@, [tree |-> r.tree, ref |-> 1])]
        e == make_exn_lns_error(r.err, text, render, null_prints)
        sofar == exn_print_tree(exn_printf_line(e, "Tree generated so far:", NullStr, 0),
                                r.nodes, r.tree)
    IN  IF ~r.err.set THEN Ret(TreeV(Len(made.trees)), made, 0)
        ELSE IF e = NoValue THEN Crash(s)
        ELSE IF r.tree # <<>>
        THEN Ret(sofar, [s EXCEPT !.nodes = Reclaim(free_tree(r.nodes, r.tree), Len(s.nodes))], 0)
        ELSE Ret(e, [s EXCEPT !.nodes = r.nodes], 0)

\* lens_put that returns the buffer before anything was written to it
lens_put_empty_buf(s, l, tree, str, render, null_prints) ==
    IF l.tag # "V_LENS" \/ tree.tag # "V_TREE" \/ str.tag # "V_STRING" THEN Abort(s)
    ELSE
    LET r == lns_put(l.lens, s.nodes, s.trees[tree.tid].tree, str.string)
        e == make_exn_lns_error(r.err, str.string, render, null_prints)
    IN  IF ~r.err.set THEN Ret(StringV(<<>>), s, 0)
        ELSE IF e = NoValue THEN Crash(s)
        ELSE Ret(e, s, 0)

\* V_LENS -> V_TREE -> V_STRING -> V_STRING
lens_put(s, l, tree, str, render, null_prints) ==
    IF l.tag # "V_LENS" \/ tree.tag # "V_TREE" \/ str.tag # "V_STRING" THEN Abort(s)
    ELSE
    LET r == lns_put(l.lens, s.nodes, s.trees[tree.tid].tree, str.string)
        e == make_exn_lns_error(r.err, str.string, render, null_prints)
    IN  IF ~r.err.set THEN Ret(StringV(r.buf), s, 0)
        ELSE IF e = NoValue THEN Crash(s)
        ELSE Ret(e, s, 0)

(***************************************************************************)
(* The registration of the natives: name, arity, implementation, and the   *)
(* declared types, the arguments' first and the result's last.             *)
(***************************************************************************)
define_native(name, argc, impl, types) == [name |-> name, argc |-> argc, impl |-> impl, types |-> types]

\* the registration with the declared types of put in another order
builtin_init_put_swapped ==
    { define_native("gensym", 1, "gensym", <<"T_STRING", "T_STRING">>),
      define_native("del", 2, "lns_del", <<"T_REGEXP", "T_STRING", "T_LENS">>),
      define_native("store", 1, "lns_store", <<"T_REGEXP", "T_LENS">>),
      define_native("key", 1, "lns_key", <<"T_REGEXP", "T_LENS">>),
      define_native("label", 1, "lns_label", <<"T_STRING", "T_LENS">>),
      define_native("seq", 1, "lns_seq", <<"T_STRING", "T_LENS">>),
      define_native("counter", 1, "lns_counter", <<"T_STRING", "T_LENS">>),
      define_native("get", 2, "lens_get", <<"T_LENS", "T_STRING", "T_TREE">>),
      define_native("put", 3, "lens_put", <<"T_LENS", "T_STRING", "T_TREE", "T_STRING">>),
      define_native("set", 3, "tree_set_glue", <<"T_STRING", "T_STRING", "T_TREE", "T_TREE">>),
      define_native("rm", 2, "tree_rm_glue", <<"T_STRING", "T_TREE", "T_TREE">>),
      define_native("insa", 3, "tree_insa_glue", <<"T_STRING", "T_STRING", "T_TREE", "T_TREE">>),
      define_native("insb", 3, "tree_insb_glue", <<"T_STRING", "T_STRING", "T_TREE", "T_TREE">>),
      define_native("incl", 1, "xform_incl", <<"T_STRING", "T_FILTER">>),
      define_native("excl", 1, "xform_excl", <<"T_STRING", "T_FILTER">>),
      define_native("transform", 2, "xform_transform", <<"T_LENS", "T_FILTER", "T_TRANSFORM">>) }

builtin_init ==
    { define_native("gensym", 1, "gensym", <<"T_STRING", "T_STRING">>),
      define_native("del", 2, "lns_del", <<"T_REGEXP", "T_STRING", "T_LENS">>),
      define_native("store", 1, "lns_store", <<"T_REGEXP", "T_LENS">>),
      define_native("key", 1, "lns_key", <<"T_REGEXP", "T_LENS">>),
      define_native("label", 1, "lns_label", <<"T_STRING", "T_LENS">>),
      define_native("seq", 1, "lns_seq", <<"T_STRING", "T_LENS">>),
      define_native("counter", 1, "lns_counter", <<"T_STRING", "T_LENS">>),
      define_native("get", 2, "lens_get", <<"T_LENS", "T_STRING", "T_TREE">>),
      define_native("put", 3, "lens_put", <<"T_LENS", "T_TREE", "T_STRING", "T_STRING">>),
      define_native("set", 3, "tree_set_glue", <<"T_STRING", "T_STRING", "T_TREE", "T_TREE">>),
      define_native("rm", 2, "tree_rm_glue", <<"T_STRING", "T_TREE", "T_TREE">>),
      define_native("insa", 3, "tree_insa_glue", <<"T_STRING", "T_STRING", "T_TREE", "T_TREE">>),
      define_native("insb", 3, "tree_insb_glue", <<"T_STRING", "T_STRING", "T_TREE", "T_TREE">>),
      define_native("incl", 1, "xform_incl", <<"T_STRING", "T_FILTER">>),
      define_native("excl", 1, "xform_excl", <<"T_STRING", "T_FILTER">>),
      define_native("transform", 2, "xform_transform", <<"T_LENS", "T_FILTER", "T_TRANSFORM">>) }

Names == {n.name : n \in builtin_init}

Registry == [name \in Names |-> CHOOSE n \in builtin_init : n.name = name]

Lookup(name) == Registry[name]

\* the value tag of a declared type
TypeTag(type) ==
    CASE type = "T_STRING" -> "V_STRING" [] type = "T_REGEXP" -> "V_REGEXP"
      [] type = "T_LENS" -> "V_LENS" [] type = "T_TREE" -> "V_TREE"
      [] type = "T_FILTER" -> "V_FILTER" [] type = "T_TRANSFORM" -> "V_TRANSFORM"

\* the nondeterminism of a call: asprintf succeeds, the failing lens is known,
\* format_pos renders, printing NULL prints
Choices == [alloc : BOOLEAN, own : BOOLEAN, render : BOOLEAN, null_prints : BOOLEAN]

Usual == [alloc |-> TRUE, own |-> TRUE, render |-> TRUE, null_prints |-> TRUE]

\* the call of a native's implementation with the arguments given
Apply(name, a, s, nd) ==
    LET impl == Lookup(name).impl
    IN  CASE impl = "gensym" -> gensym(s, a[1], nd.alloc)
          [] impl = "lns_del" -> lns_del(s, a[1], a[2])
          [] impl = "lns_store" -> lns_store(s, a[1])
          [] impl = "lns_key" -> lns_key(s, a[1])
          [] impl = "lns_label" -> lns_label(s, a[1])
          [] impl = "lns_seq" -> lns_seq(s, a[1])
          [] impl = "lns_counter" -> lns_counter(s, a[1])
          [] impl = "lens_get" -> lens_get(s, a[1], a[2], nd.own, nd.render, nd.null_prints)
          [] impl = "lens_put" -> lens_put(s, a[1], a[2], a[3], nd.render, nd.null_prints)
          [] impl = "tree_set_glue" -> tree_set_glue(s, a[1], a[2], a[3])
          [] impl = "tree_rm_glue" -> tree_rm_glue(s, a[1], a[2])
          [] impl = "tree_insa_glue" -> tree_insa_glue(s, a[1], a[2], a[3])
          [] impl = "tree_insb_glue" -> tree_insb_glue(s, a[1], a[2], a[3])
          [] impl = "xform_incl" -> xform_incl(s, a[1])
          [] impl = "xform_excl" -> xform_excl(s, a[1])
          [] impl = "xform_transform" -> xform_transform(s, a[1], a[2])

(***************************************************************************)
(* The values a caller passes: the strings, the regular expressions, the   *)
(* lenses the constructors build from them, a lens built by concatenation  *)
(* (which leaves a key and a value), the filters, and the tree values that *)
(* exist.                                                                  *)
(***************************************************************************)
Concat == [kind |-> "L_CONCAT", regexp |-> NoRegexp, string |-> NullStr, key |-> TRUE, value |-> TRUE]

Lenses ==
    {lns_make_prim("L_STORE", r, NullStr) : r \in Regexps}
    \cup {lns_make_prim("L_KEY", {<<>>, <<"b">>, <<"a", "b">>}, NullStr),
          lns_make_prim("L_DEL", {<<>>, <<"b">>, <<"a", "b">>}, <<"b">>)}
    \cup {lns_make_prim(k, NoRegexp, <<"a">>) : k \in {"L_LABEL", "L_SEQ"}}
    \cup {Concat}

Pool(tag) ==
    CASE tag = "V_STRING" -> {StringV(x) : x \in Str}
      [] tag = "V_REGEXP" -> {RegexpV(r) : r \in Regexps}
      [] tag = "V_LENS" -> {LensV(l) : l \in Lenses}
      [] tag = "V_TREE" -> {TreeV(i) : i \in 1..Len(trees)}
      [] tag = "V_FILTER" -> {FilterV(make_filter(x, i)) : x \in Str, i \in {0, 1}}

\* one value of each tag, for the calls with a tag that is not the declared one
Rep ==
    [tag \in Tags |->
        CASE tag = "V_STRING" -> StringV(<<"a">>)
          [] tag = "V_REGEXP" -> RegexpV({<<"a">>})
          [] tag = "V_LENS" -> LensV(lns_make_prim("L_STORE", {<<"a">>}, NullStr))
          [] tag = "V_TREE" -> TreeV(1)
          [] tag = "V_FILTER" -> FilterV(make_filter(<<"a">>, 1))
          [] tag = "V_TRANSFORM" ->
                TransformV(make_transform(lns_make_prim("L_SEQ", NoRegexp, <<"a">>),
                                          make_filter(<<"a">>, 1)))
          [] tag = "V_EXN" -> make_exn_value("%s", <<"a">>, NullStr)]

\* the arguments of the declared types
Args(name) ==
    LET n == Lookup(name)
        P(i) == Pool(TypeTag(n.types[i]))
    IN  CASE n.argc = 1 -> {<<x>> : x \in P(1)}
          [] n.argc = 2 -> {<<x, y>> : x \in P(1), y \in P(2)}
          [] n.argc = 3 -> {<<x, y, z>> : x \in P(1), y \in P(2), z \in P(3)}

\* an argument's tag differs from the tag declared at its position
Mismatch(name, a) ==
    \E i \in 1..Lookup(name).argc : a[i].tag # TypeTag(Lookup(name).types[i])

\* the tree value a call edits or reads, 0 when it has none
TreeArg(name, a) ==
    LET i == IF name \in {"set", "insa", "insb"} THEN 3
             ELSE IF name \in {"rm", "put"} THEN 2 ELSE 0
    IN  IF i # 0 /\ a[i].tag = "V_TREE" THEN a[i].tid ELSE 0

Edits == {"set", "insa", "insb", "rm"}

NoProv == [has |-> FALSE, lens |-> NoLens, text |-> NullStr]

Init ==
    /\ count = 0
    /\ \/ /\ nodes = <<>>
          /\ trees = <<[tree |-> <<>>, ref |-> 1]>>
       \/ /\ nodes = <<[label |-> <<"a">>, value |-> NullStr, frees |-> 0],
                       [label |-> <<"b">>, value |-> NullStr, frees |-> 0]>>
          /\ trees = <<[tree |-> <<1, 2>>, ref |-> 1]>>
    /\ prov = <<NoProv>>
    /\ syms = <<>>
    /\ last = [name |-> "none", args |-> <<>>, kind |-> "none", v |-> NoValue, fake |-> 0,
               mismatch |-> FALSE, tid |-> 0, pre |-> <<>>, preref |-> 0, prevals |-> 0,
               nd |-> Usual, err |-> NoError]
    /\ calls = 0

\* one call of a native, with outcome o, while the process lives
Call(name, a, nd, o) ==
    LET t == TreeArg(name, a)
    IN  /\ last.kind \notin {"abort", "crash"}
        /\ Len(o.s.nodes) <= MaxNodes
        /\ Len(o.s.trees) <= MaxVals
        /\ \A i \in 1..Len(o.s.trees) : o.s.trees[i].ref <= MaxRef
        /\ count' = o.s.count
        /\ nodes' = o.s.nodes
        /\ trees' = o.s.trees
        /\ prov' = [i \in 1..Len(o.s.trees) |->
                        IF i > Len(trees)
                        THEN IF name = "get" THEN [has |-> TRUE, lens |-> a[1].lens, text |-> a[2].string]
                             ELSE NoProv
                        ELSE IF name \in Edits /\ i = t /\ o.kind # "abort" THEN NoProv
                        ELSE prov[i]]
        /\ syms' = IF name = "gensym" /\ o.kind = "value"
                   THEN Append(syms, [prefix |-> a[1].string, str |-> o.v.string])
                   ELSE syms
        /\ Len(syms') <= MaxSyms
        /\ last' = [name |-> name, args |-> IF o.kind = "abort" THEN <<>> ELSE a, kind |-> o.kind, v |-> o.v, fake |-> o.fake,
                    mismatch |-> Mismatch(name, a), tid |-> t,
                    pre |-> IF t = 0 THEN <<>> ELSE trees[t].tree,
                    preref |-> IF t = 0 THEN 0 ELSE trees[t].ref,
                    prevals |-> Len(trees),
                    nd |-> IF o.v.tag = "V_EXN" \/ o.kind # "value" THEN nd ELSE Usual,
                    err |-> NoError]

(***************************************************************************)
(* The calls.                                                              *)
(***************************************************************************)
CallGensym ==
    \E a \in Args("gensym"), alloc \in BOOLEAN : Call("gensym", a, [Usual EXCEPT !.alloc = alloc], gensym(State, a[1], alloc))

CallDel == \E a \in Args("del") : Call("del", a, Usual, lns_del(State, a[1], a[2]))

CallStore == \E a \in Args("store") : Call("store", a, Usual, lns_store(State, a[1]))

CallKey == \E a \in Args("key") : Call("key", a, Usual, lns_key(State, a[1]))

CallLabel == \E a \in Args("label") : Call("label", a, Usual, lns_label(State, a[1]))

CallSeq == \E a \in Args("seq") : Call("seq", a, Usual, lns_seq(State, a[1]))

CallCounter == \E a \in Args("counter") : Call("counter", a, Usual, lns_counter(State, a[1]))

\* the engine is modelled for the primitive lenses; its errors carry an offset
\* (get) or a path (put), so that no NULL is printed
CallGet ==
    \E a \in Args("get"), nd \in Choices :
        /\ a[1].lens.kind \in PrimKinds
        /\ nd.alloc /\ nd.null_prints
        /\ Call("get", a, nd, lens_get(State, a[1], a[2], nd.own, nd.render, nd.null_prints))

CallPut ==
    \E a \in Args("put"), nd \in Choices :
        /\ a[1].lens.kind \in PrimKinds
        /\ nd = Usual
        /\ Call("put", a, nd, lens_put(State, a[1], a[2], a[3], nd.render, nd.null_prints))

\* the values set are two of the strings
CallSet ==
    \E a \in Args("set") :
        /\ a[2].string \in {<<"a">>, <<"b">>}
        /\ Call("set", a, Usual, tree_set_glue(State, a[1], a[2], a[3]))

CallRm == \E a \in Args("rm") : Call("rm", a, Usual, tree_rm_glue(State, a[1], a[2]))

CallInsa == \E a \in Args("insa") : Call("insa", a, Usual, tree_insa_glue(State, a[1], a[2], a[3]))

CallInsb == \E a \in Args("insb") : Call("insb", a, Usual, tree_insb_glue(State, a[1], a[2], a[3]))

CallIncl == \E a \in Args("incl") : Call("incl", a, Usual, xform_incl(State, a[1]))

CallExcl == \E a \in Args("excl") : Call("excl", a, Usual, xform_excl(State, a[1]))

CallTransform == \E a \in Args("transform") : Call("transform", a, Usual, xform_transform(State, a[1], a[2]))

\* a call with an argument of another tag than declared, one value per tag
CallMistyped ==
    \E name \in Names :
        \E tags \in [1..Lookup(name).argc -> Tags] :
            LET a == [i \in 1..Lookup(name).argc |-> Rep[tags[i]]]
            IN  /\ Mismatch(name, a)
                /\ Call(name, a, Usual, Apply(name, a, State, Usual))

(***************************************************************************)
(* Specifications.  Spec runs all the natives together, well typed or not, *)
(* for a bounded number of calls.  The others run one family of natives    *)
(* without a bound on the number of calls.                                 *)
(***************************************************************************)
Tick == calls < MaxCalls /\ calls' = calls + 1

Next ==
    \/ Tick /\ CallGensym
    \/ Tick /\ CallDel
    \/ Tick /\ CallStore
    \/ Tick /\ CallKey
    \/ Tick /\ CallLabel
    \/ Tick /\ CallSeq
    \/ Tick /\ CallCounter
    \/ Tick /\ CallGet
    \/ Tick /\ CallPut
    \/ Tick /\ CallSet
    \/ Tick /\ CallRm
    \/ Tick /\ CallInsa
    \/ Tick /\ CallInsb
    \/ Tick /\ CallIncl
    \/ Tick /\ CallExcl
    \/ Tick /\ CallTransform
    \/ Tick /\ CallMistyped

Spec == Init /\ [][Next]_vars

NextSym == CallGensym /\ UNCHANGED calls

SpecSym == Init /\ [][NextSym]_vars

NextTree ==
    \/ CallSet /\ UNCHANGED calls
    \/ CallRm /\ UNCHANGED calls
    \/ CallInsa /\ UNCHANGED calls
    \/ CallInsb /\ UNCHANGED calls

SpecTree == Init /\ [][NextTree]_vars

NextLens ==
    \/ CallDel /\ UNCHANGED calls
    \/ CallStore /\ UNCHANGED calls
    \/ CallKey /\ UNCHANGED calls
    \/ CallLabel /\ UNCHANGED calls
    \/ CallSeq /\ UNCHANGED calls
    \/ CallCounter /\ UNCHANGED calls
    \/ CallIncl /\ UNCHANGED calls
    \/ CallExcl /\ UNCHANGED calls
    \/ CallTransform /\ UNCHANGED calls

SpecLens == Init /\ [][NextLens]_vars

NextEngine ==
    \/ CallGet /\ UNCHANGED calls
    \/ CallPut /\ UNCHANGED calls

SpecEngine == Init /\ [][NextEngine]_vars

(***************************************************************************)
(* make_exn_lns_error on its own, applied to the lens errors of the data   *)
(* model: a message, an owning lens or none, and an offset, a path, or     *)
(* neither.                                                                *)
(***************************************************************************)
LensErrors ==
    {e \in {lns_error(m, l, pos, path) :
                m \in {MsgNoMatch, MsgPut}, l \in BOOLEAN, pos \in -1..2,
                path \in {NullStr, <<"/">>, <<"/", "a">>}} :
        e.pos >= 0 => e.path = NullStr}

ExnLnsError ==
    \E err \in LensErrors, text \in Str, nd \in Choices :
        LET v == make_exn_lns_error(err, text, nd.render, nd.null_prints)
        IN  /\ last.kind \notin {"abort", "crash"}
            /\ err.pos <= Len(text)
            /\ nd.alloc /\ nd.own
            /\ last' = [last EXCEPT
                            !.name = "make_exn_lns_error", !.args = <<StringV(text)>>,
                            !.kind = IF v = NoValue THEN "crash" ELSE "value",
                            !.v = v, !.nd = nd, !.err = err]
            /\ UNCHANGED <<count, nodes, trees, prov, syms, calls>>

SpecErr == Init /\ [][ExnLnsError]_vars

(***************************************************************************)
(* The claims.                                                             *)
(***************************************************************************)
Fmts(v) == [i \in 1..Len(v.lines) |-> v.lines[i].fmt]

HasLine(v, fmt) == \E i \in 1..Len(v.lines) : v.lines[i].fmt = fmt

Succeeded == last.kind = "value" /\ last.v.tag # "V_EXN"

Failed == last.kind = "value" /\ last.v.tag = "V_EXN"

\* C1: successive successful calls of gensym with the same prefix return
\* pairwise distinct strings, each of which starts with the prefix.
C1_GensymDistinct ==
    /\ \A i \in 1..Len(syms) : IsPrefix(syms[i].prefix, syms[i].str)
    /\ \A i, j \in 1..Len(syms) :
          (i < j /\ syms[i].prefix = syms[j].prefix) => syms[i].str # syms[j].str

\* C2: after a successful set on an empty tree the tree is the one node made
\* for the path, with the value; the scaffold is out of the tree and freed
\* once, the new node is not freed.
C2_ScaffoldCleanup ==
    (last.name = "set" /\ Succeeded /\ last.pre = <<>>) =>
        LET list == trees[last.tid].tree
        IN  /\ last.fake # 0
            /\ Len(list) = 1
            /\ list[1] # last.fake
            /\ nodes[list[1]].label = last.args[1].string
            /\ nodes[list[1]].value = last.args[2].string
            /\ nodes[list[1]].frees = 0
            /\ nodes[last.fake].frees = 1

C2_Witness ==
    /\ last.name = "set" /\ Succeeded /\ last.pre = <<>>
    /\ last.fake # 0
    /\ Len(trees[last.tid].tree) = 1
    /\ nodes[trees[last.tid].tree[1]].value = <<"b">>

\* C3: a successful insert puts one new node, labelled by the first argument,
\* right before (insb) or right after (insa) the one node the second argument
\* resolves to; the nodes that were there keep their order.
C3_InsertOrder ==
    (last.name \in {"insa", "insb"} /\ Succeeded) =>
        LET pre == last.pre
            post == trees[last.tid].tree
            m == {i \in 1..Len(pre) : nodes[pre[i]].label = last.args[2].string}
            k == IF last.name = "insb" THEN Min(m) - 1 ELSE Min(m)
        IN  /\ Cardinality(m) = 1
            /\ Len(post) = Len(pre) + 1
            /\ SubSeq(post, 1, k) = SubSeq(pre, 1, k)
            /\ SubSeq(post, k + 2, Len(post)) = SubSeq(pre, k + 1, Len(pre))
            /\ \A i \in 1..Len(pre) : pre[i] # post[k + 1]
            /\ nodes[post[k + 1]].label = last.args[1].string

C3_Witness ==
    /\ last.name = "insb" /\ Succeeded
    /\ Len(last.pre) = 2
    /\ last.args[2].string = <<"b">>
    /\ [i \in 1..Len(trees[last.tid].tree) |-> nodes[trees[last.tid].tree[i]].label]
         = <<(<<"a">>), (<<"a", "b">>), (<<"b">>)>>

\* C4: transform returns an exception, and no transform, exactly when the lens
\* leaves a key or a value; the message names the key when the lens leaves a
\* key, the value otherwise; else the transform holds the lens and the filter.
C4_TransformRejection ==
    (last.name = "transform") =>
        LET l == last.args[1].lens
            f == last.args[2].filter
        IN  /\ last.kind = "value"
            /\ (last.v.tag = "V_EXN") <=> (l.key \/ l.value)
            /\ last.v.tag = "V_EXN" =>
                  /\ last.v.transform = NoTransform
                  /\ Len(last.v.lines) = 1
                  /\ last.v.lines[1].s = IF l.key THEN KeyStr ELSE ValueStr
            /\ last.v.tag # "V_EXN" =>
                  /\ last.v.tag = "V_TRANSFORM"
                  /\ last.v.transform.lens = l
                  /\ last.v.transform.filter = f

C4_Witness ==
    /\ last.name = "transform" /\ Failed
    /\ last.args[1].lens.key /\ last.args[1].lens.value
    /\ last.v.lines[1].s = KeyStr

HereFmt == "Error encountered here (%d characters into string)"

PathFmt == "Error encountered at path %s"

\* the heap that holds just the nodes of the contents given
NodesOf(contents) ==
    [i \in 1..Len(contents) |->
        [label |-> contents[i].label, value |-> contents[i].value, frees |-> 0]]

\* C5: the lines of the exception of a failed get are, in this order: the
\* message, the lens line if the error has a lens, the offset line, the
\* snippet if one was rendered, and the header and the serialized tree if a
\* partial tree exists.
C5_GetErrorLines ==
    (last.name = "get" /\ Failed) =>
        LET text == last.args[2].string
            g == get_lens(last.args[1].lens, text, last.nd.own)
            lens == IF g.err.lens THEN <<"Lens: %s">> ELSE <<>>
            ctx == IF last.nd.render THEN <<"%s">> ELSE <<>>
            tree == IF g.tree # <<>> THEN <<"Tree generated so far:", "%s">> ELSE <<>>
            at == Len(lens) + 2
            n == Len(last.v.lines)
        IN  /\ g.err.set
            /\ Fmts(last.v) = <<"%s">> \o lens \o <<HereFmt>> \o ctx \o tree
            /\ last.v.lines[1].s = g.err.message
            /\ last.v.lines[at].n = g.err.pos
            /\ last.nd.render => last.v.lines[at + 1].s = format_pos(text, g.err.pos)
            /\ g.tree # <<>> =>
                  last.v.lines[n].s = print_tree(NodesOf(g.tree), [i \in 1..Len(g.tree) |-> i])

C5_Witness ==
    /\ last.name = "get" /\ Failed
    /\ Fmts(last.v) = <<"%s", "Lens: %s", HereFmt, "%s", "Tree generated so far:", "%s">>
    /\ last.v.lines[3].n = 1

\* C6: the exception of a lens error has a path line only if the error
\* carries a path: with neither offset nor path it has no offset line and no
\* path line, with an offset it has no path line.
C6_PathLineOnlyWithPath ==
    (last.name = "make_exn_lns_error" /\ last.kind = "value") =>
        /\ HasLine(last.v, PathFmt) => last.err.path # NullStr
        /\ (last.err.pos < 0 /\ last.err.path = NullStr) =>
              (~HasLine(last.v, HereFmt) /\ ~HasLine(last.v, PathFmt))
        /\ last.err.pos >= 0 => ~HasLine(last.v, PathFmt)

\* C7: a call of a registered native stops on a failed assert exactly when an
\* argument's tag is not the one declared at its position; it then has made
\* no value and changed no tree, node or counter; every native is registered
\* with as many argument types as its arity.
C7_TagContract ==
    [][ /\ (last'.kind = "abort") <=> last'.mismatch
        /\ last'.kind = "abort" =>
              /\ last'.v = NoValue
              /\ count' = count /\ nodes' = nodes /\ trees' = trees
        /\ \A r \in builtin_init : Len(r.types) = r.argc + 1 ]_vars

C7_Witness == last.name = "put" /\ last.kind = "abort" /\ last.mismatch

\* C8: put of the tree that get made from a text, with the same lens and the
\* same text, returns that text; get returns the tree the engine parsed, put
\* the buffer the engine wrote.
C8_RoundTrip ==
    /\ (last.name = "get" /\ Succeeded) =>
          LET g == get_lens(last.args[1].lens, last.args[2].string, TRUE)
              made == trees[last.v.tid].tree
          IN  /\ last.v.tag = "V_TREE"
              /\ [i \in 1..Len(made) |-> [label |-> nodes[made[i]].label,
                                          value |-> nodes[made[i]].value]] = g.tree
    /\ (last.name = "put" /\ Succeeded) =>
          /\ last.v.tag = "V_STRING"
          /\ last.v.string = lns_put(last.args[1].lens, nodes, trees[last.tid].tree,
                                     last.args[3].string).buf
    /\ (/\ last.name = "put"
        /\ prov[last.tid].has
        /\ prov[last.tid].lens = last.args[1].lens
        /\ prov[last.tid].text = last.args[3].string) =>
          (Succeeded /\ last.v.tag = "V_STRING" /\ last.v.string = last.args[3].string)

C8_Witness ==
    /\ last.name = "put" /\ Succeeded
    /\ prov[last.tid].has
    /\ prov[last.tid].lens = last.args[1].lens
    /\ prov[last.tid].text = last.args[3].string
    /\ last.args[1].lens.kind = "L_STORE"
    /\ last.v.string = <<"a", "b">>

\* C9: a successful set, insa, insb or rm returns the tree value it was given,
\* not a copy, with one more reference to it.
C9_SameTreeValue ==
    (last.name \in Edits /\ Succeeded) =>
        /\ last.v = TreeV(last.tid)
        /\ last.v = last.args[Len(last.args)]
        /\ Len(trees) = last.prevals
        /\ trees[last.tid].ref = last.preref + 1

C9_Witness ==
    /\ last.name = "rm" /\ Succeeded
    /\ last.v = TreeV(last.tid)
    /\ last.preref = 2
    /\ trees[last.tid].ref = 3

\* C10: a set that fails leaves the tree value as it was, the reference count
\* too; an empty tree is still empty.
C10_FailedSetKeepsTree ==
    (last.name = "set" /\ Failed) =>
        /\ trees[last.tid].tree = last.pre
        /\ trees[last.tid].ref = last.preref

====
